---- MODULE Spec2Model ----
(***************************************************************************)
(* ensembl_map/features.py: the five feature records (CDS, Exon, Gene,     *)
(* Protein, Transcript), their load constructors, to_tuple projections,    *)
(* FeatureBase.__repr__, and the get_parse_function factory.               *)
(*                                                                         *)
(* Python values are modelled as follows.  A str is a TLA+ string, an int  *)
(* an integer, a tuple a TLA+ tuple.  An instance is a record              *)
(*   [cls |-> class name, dict |-> <<  <<key, value>>, ... >>]              *)
(* whose dict is the instance __dict__ in insertion order.  A source       *)
(* transcript (the duck-typed tobj argument) is a record of its attributes.*)
(***************************************************************************)
EXTENDS Integers, Sequences, FiniteSets, TLC

VARIABLES
    tobjs,   \* the source transcripts the caller holds: handle -> attributes
    heap,    \* the feature records constructed so far, in construction order
    calls,   \* history: calls[i] is the load call that constructed heap[i]
    ret      \* outcome of the most recent call

vars == <<tobjs, heap, calls, ret>>

(***************************************************************************)
(* Bounds of the exploration.                                              *)
(***************************************************************************)
\* longest source sequence
MaxLen == 4
\* start and end are drawn from 0..MaxCoord
MaxCoord == 5
\* records held at once in SpecHeap
MaxRecords == 2

(***************************************************************************)
(* Python built-ins used by the module.                                    *)
(***************************************************************************)

\* str[lo:hi] with a clamp that treats a negative lo as 0 (not Python)
PySlice_clamp(s, lo, hi) ==
    LET n == Len(s)
        l == IF lo < 0 THEN 0 ELSE IF lo > n THEN n ELSE lo
        h == IF hi < 0 THEN 0 ELSE IF hi > n THEN n ELSE hi
    IN  IF l < h THEN SubSeq(s, l + 1, h) ELSE ""

\* str[lo:hi] that yields nothing once hi passes the end (not Python)
PySlice_strict(s, lo, hi) ==
    LET n == Len(s)
        l == IF lo < 0 THEN (IF lo + n < 0 THEN 0 ELSE lo + n) ELSE lo
    IN  IF hi > n \/ l >= hi THEN "" ELSE SubSeq(s, l + 1, hi)

\* str[lo:hi]: a negative index counts from the end, both are clamped to
\* 0..len, and an empty range gives the empty string
PySlice(s, lo, hi) ==
    LET n == Len(s)
        adj(i) == IF i < 0
                  THEN (IF i + n < 0 THEN 0 ELSE i + n)
                  ELSE (IF i > n THEN n ELSE i)
        l == adj(lo)
        h == adj(hi)
    IN  IF l < h THEN SubSeq(s, l + 1, h) ELSE ""

\* format(v) inside an f-string: a str is itself, character for character,
\* an int its decimal form.  ToString writes a string as a quoted literal
\* and an integer as its digits, so its first character tells the two apart.
PyFormat(v) ==
    IF SubSeq(ToString(v), 1, 1) = "\""
    THEN v
    ELSE ToString(v)

\* sep.join(parts)
RECURSIVE PyJoin(_, _)
PyJoin(sep, parts) ==
    IF parts = <<>> THEN ""
    ELSE IF Len(parts) = 1 THEN parts[1]
    ELSE parts[1] \o sep \o PyJoin(sep, Tail(parts))

\* self.<name>: the value stored under key name in the instance __dict__
Attr(self, name) ==
    LET i == CHOOSE i \in DOMAIN self.dict : self.dict[i][1] = name
    IN  self.dict[i][2]

(***************************************************************************)
(* class FeatureBase                                                       *)
(***************************************************************************)
FeatureBase_seqlim == 3

FeatureBaseSubclasses == {"CDS", "Exon", "Gene", "Transcript"}

\* __repr__ that cuts the sequence without the marker at the threshold
FeatureBase_repr_mut(self) ==
    LET rarg(kv) ==
            IF kv[1] = "seq"
            THEN kv[1] \o "=" \o PySlice(kv[2], 0, FeatureBase_seqlim)
            ELSE kv[1] \o "=" \o PyFormat(kv[2])
        rargs == [i \in DOMAIN self.dict |-> rarg(self.dict[i])]
    IN  self.cls \o "(" \o PyJoin(", ", rargs) \o ")"

FeatureBase_repr(self) ==
    LET rarg(kv) ==
            IF kv[1] = "seq"
            THEN IF Len(kv[2]) > FeatureBase_seqlim
                 THEN kv[1] \o "=" \o PySlice(kv[2], 0, FeatureBase_seqlim) \o "..."
                 ELSE kv[1] \o "=" \o PyFormat(kv[2])
            ELSE kv[1] \o "=" \o PyFormat(kv[2])
        rargs == [i \in DOMAIN self.dict |-> rarg(self.dict[i])]
    IN  self.cls \o "(" \o PyJoin(", ", rargs) \o ")"

(***************************************************************************)
(* class CDS                                                               *)
(***************************************************************************)
CDS_init(contig, start, end, strand, biotype, transcript_id, transcript_name, seq) ==
    [cls |-> "CDS",
     dict |-> << <<"contig", contig>>, <<"start", start>>, <<"end", end>>,
                 <<"strand", strand>>, <<"biotype", biotype>>,
                 <<"transcript_id", transcript_id>>,
                 <<"transcript_name", transcript_name>>, <<"seq", seq>> >>]

\* CDS.load slicing [start:end], off by one at the left
CDS_load_mut(tobj, start, end) ==
    CDS_init(tobj.contig, start, end, tobj.strand, tobj.biotype,
             tobj.transcript_id, tobj.transcript_name,
             PySlice(tobj.coding_sequence, start, end))

CDS_load(tobj, start, end) ==
    CDS_init(tobj.contig, start, end, tobj.strand, tobj.biotype,
             tobj.transcript_id, tobj.transcript_name,
             PySlice(tobj.coding_sequence, start - 1, end))

\* CDS.to_tuple that leaves the end out of the key
CDS_to_tuple_mut(self) ==
    <<Attr(self, "transcript_id"), Attr(self, "start"), Attr(self, "start")>>

CDS_to_tuple(self) ==
    <<Attr(self, "transcript_id"), Attr(self, "start"), Attr(self, "end")>>

(***************************************************************************)
(* class Exon                                                              *)
(***************************************************************************)
Exon_init(contig, start, end, strand, biotype, exon_id, transcript_id, transcript_name, index, seq) ==
    [cls |-> "Exon",
     dict |-> << <<"contig", contig>>, <<"start", start>>, <<"end", end>>,
                 <<"strand", strand>>, <<"biotype", biotype>>,
                 <<"exon_id", exon_id>>, <<"transcript_id", transcript_id>>,
                 <<"transcript_name", transcript_name>>, <<"index", index>>,
                 <<"seq", seq>> >>]

\* the biotype parameter is accepted and never read: the record gets
\* tobj.biotype
Exon_load(tobj, start, end, biotype, exon_id, index) ==
    Exon_init(tobj.contig, start, end, tobj.strand, tobj.biotype, exon_id,
              tobj.transcript_id, tobj.transcript_name, index,
              PySlice(tobj.sequence, start - 1, end))

Exon_to_tuple(self) ==
    <<Attr(self, "exon_id"), Attr(self, "start"), Attr(self, "end")>>

(***************************************************************************)
(* class Gene                                                              *)
(***************************************************************************)
Gene_init(contig, start, end, strand, biotype, gene_id, gene_name) ==
    [cls |-> "Gene",
     dict |-> << <<"contig", contig>>, <<"start", start>>, <<"end", end>>,
                 <<"strand", strand>>, <<"biotype", biotype>>,
                 <<"gene_id", gene_id>>, <<"gene_name", gene_name>> >>]

Gene_load(tobj, start, end) ==
    Gene_init(tobj.contig, start, end, tobj.strand, tobj.biotype,
              tobj.gene_id, tobj.gene_name)

Gene_to_tuple(self) ==
    <<Attr(self, "gene_id"), Attr(self, "start"), Attr(self, "end")>>

(***************************************************************************)
(* class Protein (does not derive from FeatureBase)                        *)
(***************************************************************************)
Protein_init(contig, start, end, strand, biotype, protein_id, seq) ==
    [cls |-> "Protein",
     dict |-> << <<"contig", contig>>, <<"start", start>>, <<"end", end>>,
                 <<"strand", strand>>, <<"biotype", biotype>>,
                 <<"protein_id", protein_id>>, <<"seq", seq>> >>]

Protein_load(tobj, start, end) ==
    Protein_init(tobj.contig, start, end, tobj.strand, tobj.biotype,
                 tobj.protein_id,
                 PySlice(tobj.protein_sequence, start - 1, end))

\* Protein.to_tuple with start and end swapped
Protein_to_tuple_mut(self) ==
    <<Attr(self, "protein_id"), Attr(self, "end"), Attr(self, "start")>>

Protein_to_tuple(self) ==
    <<Attr(self, "protein_id"), Attr(self, "start"), Attr(self, "end")>>

(***************************************************************************)
(* class Transcript                                                        *)
(***************************************************************************)
Transcript_init(contig, start, end, strand, biotype, transcript_id, transcript_name, seq) ==
    [cls |-> "Transcript",
     dict |-> << <<"contig", contig>>, <<"start", start>>, <<"end", end>>,
                 <<"strand", strand>>, <<"biotype", biotype>>,
                 <<"transcript_id", transcript_id>>,
                 <<"transcript_name", transcript_name>>, <<"seq", seq>> >>]

Transcript_load(tobj, start, end) ==
    Transcript_init(tobj.contig, start, end, tobj.strand, tobj.biotype,
                    tobj.transcript_id, tobj.transcript_name,
                    PySlice(tobj.sequence, start - 1, end))

Transcript_to_tuple(self) ==
    <<Attr(self, "transcript_id"), Attr(self, "start"), Attr(self, "end")>>

\* self.to_tuple(): the method of the instance's own class
to_tuple(self) ==
    CASE self.cls = "CDS" -> CDS_to_tuple(self)
      [] self.cls = "Exon" -> Exon_to_tuple(self)
      [] self.cls = "Gene" -> Gene_to_tuple(self)
      [] self.cls = "Protein" -> Protein_to_tuple(self)
      [] self.cls = "Transcript" -> Transcript_to_tuple(self)

(***************************************************************************)
(* get_parse_function                                                      *)
(***************************************************************************)
Return(v) == [kind |-> "return", value |-> v]

Raise(exc, msg) == [kind |-> "raise", value |-> <<exc, msg>>]

\* a bound classmethod, named by its class and its name
Method(cls, name) == <<cls, name>>

\* a lookup that folds case for the first tag
get_parse_function_mut(to_type) ==
    IF to_type = "cds" \/ to_type = "CDS" THEN Return(Method("CDS", "load"))
    ELSE IF to_type = "exon" THEN Return(Method("Exon", "load"))
    ELSE IF to_type = "gene" THEN Return(Method("Gene", "load"))
    ELSE IF to_type = "protein" THEN Return(Method("Protein", "load"))
    ELSE IF to_type = "transcript" THEN Return(Method("Transcript", "load"))
    ELSE Raise("TypeError", "Could not get parse function for " \o to_type)

get_parse_function(to_type) ==
    IF to_type = "cds" THEN Return(Method("CDS", "load"))
    ELSE IF to_type = "exon" THEN Return(Method("Exon", "load"))
    ELSE IF to_type = "gene" THEN Return(Method("Gene", "load"))
    ELSE IF to_type = "protein" THEN Return(Method("Protein", "load"))
    ELSE IF to_type = "transcript" THEN Return(Method("Transcript", "load"))
    ELSE Raise("TypeError", "Could not get parse function for " \o to_type)

(***************************************************************************)
(* The callers' data: source transcripts and the arguments they pass.      *)
(***************************************************************************)
SequencePattern == "GCATGCCCTAAGC"

CodingPattern == "ATGCCCTAA"

ProteinPattern == "MPLKVSTAR"

\* A source transcript.  ids picks its Ensembl identifiers, v the rest of
\* its annotation, n the lengths of its three sequences (each runs through
\* 0..MaxLen as n does, and the three differ).
Tobj(ids, v, n) ==
    [contig |-> IF v = 1 THEN "7" ELSE "X",
     strand |-> IF v = 1 THEN "+" ELSE "-",
     biotype |-> IF v = 1 THEN "protein_coding" ELSE "lncRNA",
     gene_id |-> IF ids = 1 THEN "ENSG01" ELSE "ENSG02",
     gene_name |-> IF v = 1 THEN "BRAF" ELSE "XIST",
     transcript_id |-> IF ids = 1 THEN "ENST01" ELSE "ENST02",
     transcript_name |-> IF v = 1 THEN "BRAF-201" ELSE "XIST-202",
     protein_id |-> IF ids = 1 THEN "ENSP01" ELSE "ENSP02",
     sequence |-> SubSeq(SequencePattern, 1, n),
     coding_sequence |-> SubSeq(CodingPattern, 1, (n + 1) % (MaxLen + 1)),
     protein_sequence |-> SubSeq(ProteinPattern, 1, (n + 2) % (MaxLen + 1))]

Coords == 0 .. MaxCoord

Biotypes == {"protein_coding", "retained_intron"}

ExonIds == {"ENSE001", "ENSE002"}

Indexes == {1, 2}

\* the five known tags, case variants, near misses and the empty string
Tags == {"cds", "exon", "gene", "protein", "transcript",
         "CDS", "Exon", "genes", "cd", ""}

None == [op |-> "none", kind |-> "return", self |-> 0, arg |-> "", value |-> ""]

(***************************************************************************)
(* The calls.  Each load appends the new record to the heap; nothing else  *)
(* is written by any call.                                                 *)
(***************************************************************************)
Constructed(obj, call) ==
    /\ heap' = Append(heap, obj)
    /\ calls' = Append(calls, call)
    /\ ret' = [op |-> "load", kind |-> "return", self |-> Len(heap) + 1,
               arg |-> "", value |-> ""]
    /\ UNCHANGED tobjs

LoadCDS(t, start, end) ==
    Constructed(CDS_load(tobjs[t], start, end),
                [cls |-> "CDS", t |-> t, start |-> start, end |-> end, extra |-> <<>>])

LoadExon(t, start, end, biotype, exon_id, index) ==
    Constructed(Exon_load(tobjs[t], start, end, biotype, exon_id, index),
                [cls |-> "Exon", t |-> t, start |-> start, end |-> end,
                 extra |-> <<biotype, exon_id, index>>])

LoadGene(t, start, end) ==
    Constructed(Gene_load(tobjs[t], start, end),
                [cls |-> "Gene", t |-> t, start |-> start, end |-> end, extra |-> <<>>])

LoadProtein(t, start, end) ==
    Constructed(Protein_load(tobjs[t], start, end),
                [cls |-> "Protein", t |-> t, start |-> start, end |-> end, extra |-> <<>>])

LoadTranscript(t, start, end) ==
    Constructed(Transcript_load(tobjs[t], start, end),
                [cls |-> "Transcript", t |-> t, start |-> start, end |-> end, extra |-> <<>>])

ToTuple(i) ==
    /\ ret' = [op |-> "to_tuple", kind |-> "return", self |-> i, arg |-> "",
               value |-> to_tuple(heap[i])]
    /\ UNCHANGED <<tobjs, heap, calls>>

\* repr() that cuts the stored sequence down to what it prints
Repr_mut(i) ==
    /\ heap[i].cls \in FeatureBaseSubclasses
    /\ ret' = [op |-> "repr", kind |-> "return", self |-> i, arg |-> "",
               value |-> FeatureBase_repr(heap[i])]
    /\ heap' = [heap EXCEPT ![i].dict =
                    [k \in DOMAIN @ |->
                        IF @[k][1] = "seq"
                        THEN <<"seq", PySlice(@[k][2], 0, FeatureBase_seqlim)>>
                        ELSE @[k]]]
    /\ UNCHANGED <<tobjs, calls>>

\* repr(heap[i]) for an instance of a FeatureBase subclass
Repr(i) ==
    /\ heap[i].cls \in FeatureBaseSubclasses
    /\ ret' = [op |-> "repr", kind |-> "return", self |-> i, arg |-> "",
               value |-> FeatureBase_repr(heap[i])]
    /\ UNCHANGED <<tobjs, heap, calls>>

GetParseFunction(to_type) ==
    /\ ret' = [op |-> "get_parse_function", self |-> 0, arg |-> to_type,
               kind |-> get_parse_function(to_type).kind,
               value |-> get_parse_function(to_type).value]
    /\ UNCHANGED <<tobjs, heap, calls>>

(***************************************************************************)
(* Spec: one source transcript of any length, one record built from any    *)
(* coordinates in Coords, then any calls on it.                            *)
(***************************************************************************)
Init ==
    /\ \E k \in 1 .. 2, n \in 0 .. MaxLen : tobjs = <<Tobj(k, k, n)>>
    /\ heap = <<>>
    /\ calls = <<>>
    /\ ret = None

Next ==
    \/ \E start \in Coords, end \in Coords :
            heap = <<>> /\ LoadCDS(1, start, end)
    \/ \E start \in Coords, end \in Coords, biotype \in Biotypes, exon_id \in ExonIds, index \in Indexes :
            heap = <<>> /\ LoadExon(1, start, end, biotype, exon_id, index)
    \/ \E start \in Coords, end \in Coords :
            heap = <<>> /\ LoadGene(1, start, end)
    \/ \E start \in Coords, end \in Coords :
            heap = <<>> /\ LoadProtein(1, start, end)
    \/ \E start \in Coords, end \in Coords :
            heap = <<>> /\ LoadTranscript(1, start, end)
    \/ \E i \in DOMAIN heap : ToTuple(i)
    \/ \E i \in DOMAIN heap : Repr(i)
    \/ \E to_type \in Tags : GetParseFunction(to_type)

Spec == Init /\ [][Next]_vars

(***************************************************************************)
(* SpecHeap: two source transcripts that carry the same identifiers and    *)
(* differ in everything else, and up to MaxRecords records alive at once.  *)
(***************************************************************************)
HeapEnds == {2, MaxLen}

InitHeap ==
    /\ tobjs = <<Tobj(1, 1, MaxLen), Tobj(1, 2, MaxLen)>>
    /\ heap = <<>>
    /\ calls = <<>>
    /\ ret = None

NextHeap ==
    \/ \E t \in DOMAIN tobjs, end \in HeapEnds :
            Len(heap) < MaxRecords /\ LoadCDS(t, 1, end)
    \/ \E t \in DOMAIN tobjs, end \in HeapEnds, index \in Indexes :
            Len(heap) < MaxRecords /\ LoadExon(t, 1, end, "retained_intron", "ENSE001", index)
    \/ \E t \in DOMAIN tobjs, end \in HeapEnds :
            Len(heap) < MaxRecords /\ LoadGene(t, 1, end)
    \/ \E t \in DOMAIN tobjs, end \in HeapEnds :
            Len(heap) < MaxRecords /\ LoadProtein(t, 1, end)
    \/ \E t \in DOMAIN tobjs, end \in HeapEnds :
            Len(heap) < MaxRecords /\ LoadTranscript(t, 1, end)
    \/ \E i \in DOMAIN heap : ToTuple(i)
    \/ \E i \in DOMAIN heap : Repr(i)
    \/ \E to_type \in Tags : GetParseFunction(to_type)

SpecHeap == InitHeap /\ [][NextHeap]_vars

(***************************************************************************)
(* Vocabulary of the properties.                                           *)
(***************************************************************************)
KnownTags == {"cds", "exon", "gene", "protein", "transcript"}

SeqClasses == {"CDS", "Exon", "Protein", "Transcript"}

\* the source sequence the class of record i is cut from
SourceSeq(i) ==
    LET tobj == tobjs[calls[i].t]
    IN  CASE calls[i].cls = "CDS" -> tobj.coding_sequence
          [] calls[i].cls = "Protein" -> tobj.protein_sequence
          [] OTHER -> tobj.sequence

\* the identifier the class of record i is keyed by
SourceId(i) ==
    LET tobj == tobjs[calls[i].t]
    IN  CASE calls[i].cls = "Gene" -> tobj.gene_id
          [] calls[i].cls = "Exon" -> calls[i].extra[2]
          [] calls[i].cls = "Protein" -> tobj.protein_id
          [] OTHER -> tobj.transcript_id

IdField(cls) ==
    CASE cls = "Gene" -> "gene_id"
      [] cls = "Exon" -> "exon_id"
      [] cls = "Protein" -> "protein_id"
      [] OTHER -> "transcript_id"

Contains(hay, needle) ==
    \E k \in 1 .. (Len(hay) - Len(needle) + 1) :
        SubSeq(hay, k, k + Len(needle) - 1) = needle

\* s[:k] as a 1-based prefix
Prefix(s, k) == SubSeq(s, 1, IF k < Len(s) THEN k ELSE Len(s))

(***************************************************************************)
(* C1.  get_parse_function is a total, case-sensitive, exact-match lookup: *)
(* each of the five tags gives the load of its own class, the five are     *)
(* pairwise distinct, and every other string (case variants and the empty  *)
(* string included) gives no callable and raises a TypeError whose message *)
(* contains the string.                                                    *)
(***************************************************************************)
C1_FactoryLookup ==
    /\ \A a \in KnownTags, b \in KnownTags :
          a # b => get_parse_function(a).value # get_parse_function(b).value
    /\ ret.op = "get_parse_function" =>
          /\ ret.arg = "cds" => ret.kind = "return" /\ ret.value = <<"CDS", "load">>
          /\ ret.arg = "exon" => ret.kind = "return" /\ ret.value = <<"Exon", "load">>
          /\ ret.arg = "gene" => ret.kind = "return" /\ ret.value = <<"Gene", "load">>
          /\ ret.arg = "protein" => ret.kind = "return" /\ ret.value = <<"Protein", "load">>
          /\ ret.arg = "transcript" =>
                ret.kind = "return" /\ ret.value = <<"Transcript", "load">>
          /\ ret.arg \notin KnownTags =>
                /\ ret.kind = "raise"
                /\ ret.value[1] = "TypeError"
                /\ Contains(ret.value[2], ret.arg)

\* a case variant of a known tag has been looked up and refused
C1_Witness ==
    /\ ret.op = "get_parse_function"
    /\ ret.arg = "CDS"
    /\ ret.kind = "raise"
    /\ ret.value = <<"TypeError", "Could not get parse function for CDS">>

(***************************************************************************)
(* C2.  1-based inclusive slicing law: whenever 1 <= start <= end <=       *)
(* len(source sequence), the stored seq is the characters at 1-based       *)
(* positions start..end of the class's source sequence, and its length is  *)
(* end - start + 1.                                                        *)
(***************************************************************************)
C2_SliceLaw ==
    \A i \in DOMAIN heap :
        (/\ calls[i].cls \in SeqClasses
         /\ 1 <= calls[i].start
         /\ calls[i].start <= calls[i].end
         /\ calls[i].end <= Len(SourceSeq(i)))
        => /\ Attr(heap[i], "seq") = SubSeq(SourceSeq(i), calls[i].start, calls[i].end)
           /\ Len(Attr(heap[i], "seq")) = calls[i].end - calls[i].start + 1

\* CDS.load(t, 2, 4) on a coding sequence of four characters
C2_Witness ==
    \E i \in DOMAIN heap :
        /\ calls[i].cls = "CDS"
        /\ calls[i].start = 2
        /\ calls[i].end = 4
        /\ Len(SourceSeq(i)) = 4
        /\ Attr(heap[i], "seq") = "TGC"

(***************************************************************************)
(* C3.  Truncation law: for start >= 1 and end beyond the length of the    *)
(* source sequence, load raises nothing and the stored seq is exactly the  *)
(* suffix of the source from 0-based index start-1, empty when start-1 is  *)
(* at or past the length.                                                  *)
(***************************************************************************)
C3_TruncationLaw ==
    /\ ret.op = "load" => ret.kind = "return"
    /\ \A i \in DOMAIN heap :
        (/\ calls[i].cls \in SeqClasses
         /\ calls[i].start >= 1
         /\ calls[i].end > Len(SourceSeq(i)))
        => Attr(heap[i], "seq") =
              IF calls[i].start - 1 >= Len(SourceSeq(i))
              THEN ""
              ELSE SubSeq(SourceSeq(i), calls[i].start, Len(SourceSeq(i)))

\* Protein.load(t, 3, 5) on a protein sequence of four characters
C3_Witness ==
    \E i \in DOMAIN heap :
        /\ calls[i].cls = "Protein"
        /\ calls[i].start = 3
        /\ calls[i].end = 5
        /\ Len(SourceSeq(i)) = 4
        /\ Attr(heap[i], "seq") = "LK"

(***************************************************************************)
(* C4.  For start <= end, to_tuple of a loaded record is exactly           *)
(* (id, start, end) with the start and end passed to load and the id of    *)
(* the variant (gene_id, transcript_id, exon_id, protein_id); it is the    *)
(* projection of the stored fields.                                        *)
(***************************************************************************)
C4_IdentityTuple ==
    (ret.op = "to_tuple" /\ calls[ret.self].start <= calls[ret.self].end)
    => /\ ret.value = <<SourceId(ret.self), calls[ret.self].start, calls[ret.self].end>>
       /\ ret.value = <<Attr(heap[ret.self], IdField(heap[ret.self].cls)),
                        Attr(heap[ret.self], "start"),
                        Attr(heap[ret.self], "end")>>

\* to_tuple of a Protein record loaded with start < end
C4_Witness ==
    /\ ret.op = "to_tuple"
    /\ calls[ret.self].cls = "Protein"
    /\ calls[ret.self].start = 2
    /\ calls[ret.self].end = 3
    /\ ret.value[1] \in {"ENSP01", "ENSP02"}

(***************************************************************************)
(* C5.  Every record made by Exon.load(t, s, e, biotype, exon_id, index)   *)
(* has biotype equal to the biotype argument (not t.biotype), index equal  *)
(* to the index argument, and identity tuple (exon_id, s, e).              *)
(***************************************************************************)
C5_ExonArguments ==
    \A i \in DOMAIN heap :
        calls[i].cls = "Exon"
        => /\ Attr(heap[i], "biotype") = calls[i].extra[1]
           /\ Attr(heap[i], "index") = calls[i].extra[3]
           /\ to_tuple(heap[i]) = <<calls[i].extra[2], calls[i].start, calls[i].end>>

(***************************************************************************)
(* C6.  Debug string law: the debug string of a CDS, Exon or Transcript    *)
(* record is TypeName(field=value, ...) with the fields in construction    *)
(* order; its seq entry is the first 3 characters of seq followed by       *)
(* "..." when seq is longer than 3 and the whole seq otherwise; the stored *)
(* seq stays the full slice.                                               *)
(***************************************************************************)
C6_ShownSeq(seq) == IF Len(seq) > 3 THEN SubSeq(seq, 1, 3) \o "..." ELSE seq

C6_Expected(self) ==
    IF self.cls = "Exon"
    THEN "Exon(contig=" \o Attr(self, "contig")
         \o ", start=" \o ToString(Attr(self, "start"))
         \o ", end=" \o ToString(Attr(self, "end"))
         \o ", strand=" \o Attr(self, "strand")
         \o ", biotype=" \o Attr(self, "biotype")
         \o ", exon_id=" \o Attr(self, "exon_id")
         \o ", transcript_id=" \o Attr(self, "transcript_id")
         \o ", transcript_name=" \o Attr(self, "transcript_name")
         \o ", index=" \o ToString(Attr(self, "index"))
         \o ", seq=" \o C6_ShownSeq(Attr(self, "seq")) \o ")"
    ELSE self.cls \o "(contig=" \o Attr(self, "contig")
         \o ", start=" \o ToString(Attr(self, "start"))
         \o ", end=" \o ToString(Attr(self, "end"))
         \o ", strand=" \o Attr(self, "strand")
         \o ", biotype=" \o Attr(self, "biotype")
         \o ", transcript_id=" \o Attr(self, "transcript_id")
         \o ", transcript_name=" \o Attr(self, "transcript_name")
         \o ", seq=" \o C6_ShownSeq(Attr(self, "seq")) \o ")"

C6_DebugString ==
    (ret.op = "repr" /\ heap[ret.self].cls \in {"CDS", "Exon", "Transcript"})
    => /\ ret.value = C6_Expected(heap[ret.self])
       /\ Attr(heap[ret.self], "seq") =
              PySlice(SourceSeq(ret.self), calls[ret.self].start - 1, calls[ret.self].end)

\* the debug string of an Exon whose stored seq has four characters
C6_Witness ==
    /\ ret.op = "repr"
    /\ heap[ret.self].cls = "Exon"
    /\ Attr(heap[ret.self], "seq") = "GCAT"
    /\ Contains(ret.value, "seq=GCA...)")

(***************************************************************************)
(* C10 as stated.  For start = 0 and end >= 0 load raises nothing and the  *)
(* stored seq has at most one character: the last character of the source *)
(* when the source is non-empty and end >= len(source), the empty string   *)
(* otherwise; and it is never the prefix of length end.                    *)
(***************************************************************************)
C10_NeverThePrefix ==
    /\ ret.op = "load" => ret.kind = "return"
    /\ \A i \in DOMAIN heap :
        (calls[i].cls \in SeqClasses /\ calls[i].start = 0 /\ calls[i].end >= 0)
        => /\ Len(Attr(heap[i], "seq")) <= 1
           /\ Attr(heap[i], "seq") =
                 IF Len(SourceSeq(i)) > 0 /\ calls[i].end >= Len(SourceSeq(i))
                 THEN SubSeq(SourceSeq(i), Len(SourceSeq(i)), Len(SourceSeq(i)))
                 ELSE ""
           /\ Attr(heap[i], "seq") # Prefix(SourceSeq(i), calls[i].end)

(***************************************************************************)
(* C10 as amended.  For start = 0 and end >= 0 load raises nothing and the *)
(* stored seq has at most one character: the last character of the source *)
(* when the source is non-empty and end >= len(source), the empty string   *)
(* otherwise; it equals source[:end] exactly when end = 0 or the source    *)
(* has at most one character, and differs from it in every other case.     *)
(***************************************************************************)
C10_StartZero ==
    /\ ret.op = "load" => ret.kind = "return"
    /\ \A i \in DOMAIN heap :
        (calls[i].cls \in SeqClasses /\ calls[i].start = 0 /\ calls[i].end >= 0)
        => /\ Len(Attr(heap[i], "seq")) <= 1
           /\ Attr(heap[i], "seq") =
                 IF Len(SourceSeq(i)) > 0 /\ calls[i].end >= Len(SourceSeq(i))
                 THEN SubSeq(SourceSeq(i), Len(SourceSeq(i)), Len(SourceSeq(i)))
                 ELSE ""
           /\ (Attr(heap[i], "seq") = Prefix(SourceSeq(i), calls[i].end))
                 <=> (calls[i].end = 0 \/ Len(SourceSeq(i)) <= 1)

\* Transcript.load(t, 0, 4) on a sequence of four characters keeps the last
C10_Witness ==
    \E i \in DOMAIN heap :
        /\ calls[i].cls = "Transcript"
        /\ calls[i].start = 0
        /\ calls[i].end = 4
        /\ SourceSeq(i) = "GCAT"
        /\ Attr(heap[i], "seq") = "T"

(***************************************************************************)
(* C7 as stated.  Two records of the same variant with equal identity      *)
(* tuples have equal values in every field.                                *)
(***************************************************************************)
C7_TupleKeysRecord ==
    \A i \in DOMAIN heap, j \in DOMAIN heap :
        (heap[i].cls = heap[j].cls /\ to_tuple(heap[i]) = to_tuple(heap[j]))
        => heap[i] = heap[j]

(***************************************************************************)
(* C7 as amended.  Two records of the same variant loaded from the same    *)
(* source transcript (and, for Exon, with the same index argument) that    *)
(* have equal identity tuples have equal values in every field.            *)
(***************************************************************************)
C7_TupleKeysRecordOfOneSource ==
    \A i \in DOMAIN heap, j \in DOMAIN heap :
        (/\ heap[i].cls = heap[j].cls
         /\ to_tuple(heap[i]) = to_tuple(heap[j])
         /\ calls[i].t = calls[j].t
         /\ (heap[i].cls = "Exon" => calls[i].extra[3] = calls[j].extra[3]))
        => heap[i] = heap[j]

\* two CDS records from one source transcript, one with equal tuples and
\* equal fields
C7_Witness ==
    /\ Len(heap) = 2
    /\ heap[1].cls = "CDS"
    /\ heap[2].cls = "CDS"
    /\ calls[1].t = calls[2].t
    /\ to_tuple(heap[1]) = to_tuple(heap[2])
    /\ Attr(heap[1], "seq") = Attr(heap[2], "seq")

(***************************************************************************)
(* C9.  Frame: no call changes an attribute of a source transcript, and    *)
(* no call changes a field of a record constructed earlier.                *)
(***************************************************************************)
C9_ReadOnly ==
    [][/\ tobjs' = tobjs
       /\ \A i \in DOMAIN heap : i \in DOMAIN heap' /\ heap'[i] = heap[i]]_vars

\* a debug string has been produced for a record whose seq it shortens
C9_Witness ==
    /\ ret.op = "repr"
    /\ heap[ret.self].cls = "Transcript"
    /\ Attr(heap[ret.self], "seq") = "GCAT"
    /\ Contains(ret.value, "seq=GCA...)")
    /\ Len(heap) = 2

====
